---- MODULE Spec2Model ----
(***************************************************************************)
(* A model of the ranged-download client of src/src/main.rs: length       *)
(* discovery, the download loop of main, download_chunk's validation of a *)
(* chunk response, and the digest of the reassembled buffer.              *)
(*                                                                         *)
(* A raw response is represented by what the parsing routines read from   *)
(* it, one field per routine:                                              *)
(*   conn    send_request returned Ok (connect, write, read_to_end)        *)
(*   sep     the bytes contain CR LF CR LF              (split_response)   *)
(*   utf8    the header block is valid UTF-8            (split_response)   *)
(*   tokens  number of whitespace-separated tokens of the first line       *)
(*   numeric the second token parses as a u16          (parse_status_code) *)
(*   code    that u16                                                      *)
(*   clk     "absent" | "invalid" | "int": the content-length entry of the *)
(*           header map and whether it parses as usize                     *)
(*   cl      the parsed Content-Length                                     *)
(*   body    the bytes after the separator                                 *)
(***************************************************************************)
EXTENDS Integers, Sequences, FiniteSets, TLC

(* const CHUNK_SIZE: usize = 32 * 1024, scaled down to keep the model finite. *)
CHUNK_SIZE == 2

(* Bounds of the model. *)
MaxTotal == 3
MaxBody == 3
MaxRequests == 3

(* The server's bytes: the byte at offset i (0-based) is Data[i + 1]; all   *)
(* bytes differ, so a misplaced or reordered chunk is visible.  The        *)
(* resource of a session is the first total_length bytes.                  *)
DataLen == MaxTotal + 1
Data == [i \in 1..DataLen |-> i]

Min(a, b) == IF a < b THEN a ELSE b

(* Every contiguous run of at most MaxBody server bytes, and the empty body. *)
Bodies ==
    {<<>>} \cup
    {SubSeq(Data, o, Min(o + n - 1, DataLen)) : o \in 1..DataLen, n \in 1..MaxBody}

(* Status codes a u16 can hold that the status check tells apart. *)
Codes == {200, 206, 404, 65335}

Response(conn, sep, utf8, tokens, numeric, code, clk, cl, body) ==
    [conn |-> conn, sep |-> sep, utf8 |-> utf8, tokens |-> tokens,
     numeric |-> numeric, code |-> code, clk |-> clk, cl |-> cl, body |-> body]

NoResponse == Response(FALSE, FALSE, FALSE, 0, FALSE, 0, "absent", 0, <<>>)

(* The responses a server (or the transport) can give to a chunk request. *)
ChunkResponses ==
    {NoResponse}
    \cup {Response(TRUE, FALSE, TRUE, 3, TRUE, 206, "absent", 0, <<>>)}
    \cup {Response(TRUE, TRUE, FALSE, 4, TRUE, 206, "int", 0, <<>>)}
    \cup {Response(TRUE, TRUE, TRUE, 3, TRUE, 200, "int", 1, <<1>>)}
    \cup {Response(TRUE, TRUE, TRUE, 4, FALSE, 0, "int", 1, <<1>>)}
    \cup {Response(TRUE, TRUE, TRUE, 4, TRUE, c, k, 0, <<>>) :
            c \in Codes, k \in {"absent", "invalid"}}
    \cup {Response(TRUE, TRUE, TRUE, 4, TRUE, c, "int", n, b) :
            c \in Codes, n \in 0..MaxBody, b \in Bodies}

(* The responses to the un-ranged length-discovery request. *)
LengthResponses ==
    {NoResponse}
    \cup {Response(TRUE, FALSE, TRUE, 3, TRUE, 200, "absent", 0, <<>>)}
    \cup {Response(TRUE, TRUE, FALSE, 3, TRUE, 200, "int", 0, <<>>)}
    \cup {Response(TRUE, TRUE, TRUE, 3, TRUE, 200, k, 0, <<>>) :
            k \in {"absent", "invalid"}}
    \cup {Response(TRUE, TRUE, TRUE, t, TRUE, c, "int", n, <<>>) :
            t \in {3, 4}, c \in {200, 404}, n \in 0..MaxTotal}
    \cup {Response(TRUE, TRUE, TRUE, 4, FALSE, 0, "int", n, <<>>) : n \in 0..MaxTotal}

VARIABLES
    pc,               \* "start" | "loop" | "done" (main returned Ok) | "failed" (Err)
    total_length,     \* main: let total_length
    start,            \* main: let mut start
    downloaded_data,  \* main: let mut downloaded_data
    requests,         \* the chunk requests issued so far, with their outcome
    response,         \* the raw response of the last exchange
    error,            \* the error main returned, "" if none
    hash,             \* main: let hash
    wire,             \* the request texts written to the server so far, in order
    fn,               \* the parsing routine under check, "" in a download session
    arg,              \* its argument: raw bytes or header text, one character per element
    shape,            \* how arg was put together (tokens or lines), for the properties
    called,           \* whether the routine has returned
    ret               \* what it returned

svars == <<pc, total_length, start, downloaded_data, requests, response, error, hash, wire>>
pvars == <<fn, arg, shape, called, ret>>
vars == <<pc, total_length, start, downloaded_data, requests, response, error, hash, wire,
          fn, arg, shape, called, ret>>

Ok(v) == [ok |-> TRUE, val |-> v, err |-> ""]
Err(e) == [ok |-> FALSE, val |-> <<>>, err |-> e]

(* !status_code on a u16 is the bitwise complement. *)
BitNot16(x) == 65535 - x

(* if !status_code != 200 && status_code != 206 { return Err(..) } *)
StatusRejected(status_code) ==
    BitNot16(status_code) # 200 /\ status_code # 206

(* body.into_iter().take(expected_length).collect() *)
Take(body, expected_length) ==
    SubSeq(body, 1, Min(expected_length, Len(body)))

(* calculate_hash: the digest is an external primitive; it is represented   *)
(* by an order-sensitive fold over the bytes.                              *)
RECURSIVE calculate_hash(_)
calculate_hash(data) ==
    IF data = <<>> THEN 7
    ELSE (calculate_hash(SubSeq(data, 1, Len(data) - 1)) * 31
            + data[Len(data)] + 1) % 65521

(* A length discovery that validates the status line as download_chunk does. *)
get_total_length_CheckStatus(r) ==
    IF ~r.conn THEN Err("ConnectionError")
    ELSE IF ~r.sep THEN Err("Failed to find end of headers")
    ELSE IF ~r.utf8 THEN Err("Utf8Error")
    ELSE IF r.tokens # 4 \/ ~r.numeric THEN Err("Invalid status line.")
    ELSE IF r.code # 200 THEN Err("Unexpected status code")
    ELSE IF r.clk = "absent" THEN Err("Content-Length header not found")
    ELSE IF r.clk = "invalid" THEN Err("Failed to parse content-length")
    ELSE Ok(r.cl)

(* get_total_length, on the response its request receives. *)
get_total_length(r) ==
    IF ~r.conn THEN Err("ConnectionError")
    ELSE IF ~r.sep THEN Err("Failed to find end of headers")
    ELSE IF ~r.utf8 THEN Err("Utf8Error")
    ELSE IF r.clk = "absent" THEN Err("Content-Length header not found")
    ELSE IF r.clk = "invalid" THEN Err("Failed to parse content-length")
    ELSE Ok(r.cl)

(* download_chunk, on the response its request receives. *)
download_chunk(r) ==
    IF ~r.conn THEN Err("ConnectionError")
    ELSE IF ~r.sep THEN Err("Failed to find end of headers")
    ELSE IF ~r.utf8 THEN Err("Utf8Error")
    ELSE IF r.tokens # 4 THEN Err("Invalid status line.")
    ELSE IF ~r.numeric THEN Err("ParseIntError")
    ELSE IF StatusRejected(r.code) THEN Err("Unexpected status code")
    ELSE IF r.clk = "absent" THEN Err("Content-Length header not found")
    ELSE IF r.clk = "invalid" THEN Err("Failed to parse content-length")
    ELSE Ok(Take(r.body, r.cl))

(* const SERVER: &str = "127.0.0.1:8080" *)
SERVER == "127.0.0.1:8080"

(* A request text is the sequence of its pieces; CRLF is the piece "\r\n". *)
CRLF == "\r\n"

(* get_total_length: format!("GET / HTTP/1.1\r\nHost: {}\r\nConnection: close\r\n\r\n", server) *)
length_request(server) ==
    <<"GET / HTTP/1.1", CRLF, "Host: ", server, CRLF, "Connection: close", CRLF, CRLF>>

(* download_chunk: format!("Range: bytes={}-{}\r\n", start, end) *)
range_header(s, e) == <<"Range: bytes=", ToString(s), "-", ToString(e), CRLF>>

(* A chunk request that leaves the Range header out. *)
chunk_request_NoRange(server, s, e) ==
    <<"GET / HTTP/1.1", CRLF, "Host: ", server, CRLF, "Connection: close", CRLF, CRLF>>

(* download_chunk: format!("GET / HTTP/1.1\r\nHost: {}\r\n{}\r\nConnection: close\r\n\r\n", *)
(*                         server, range_header)                                          *)
chunk_request(server, s, e) ==
    <<"GET / HTTP/1.1", CRLF, "Host: ", server, CRLF>>
        \o range_header(s, e)
        \o <<CRLF, "Connection: close", CRLF, CRLF>>

(* An error that is swallowed: the caller carries on. *)
Try_Ignore(ok) == "loop"

(* The ? operator in main (lines 14 and 28): an Err ends main at once. *)
Try(ok) == IF ok THEN "loop" ELSE "failed"

(* A loop test that is off by one. *)
LoopCond_Inclusive(s, total) == s <= total

(* while start < total_length *)
LoopCond(s, total) == s < total

(* A window end that is not clamped to total_length. *)
ChunkEnd_NoClamp(s, total) == s + CHUNK_SIZE

(* let mut end = start + CHUNK_SIZE; if end > total_length { end = total_length; } *)
ChunkEnd(s, total) ==
    IF s + CHUNK_SIZE > total THEN total ELSE s + CHUNK_SIZE

(* A reassembly that puts the new chunk in front. *)
Extend_Prepend(data, chunk) == chunk \o data

(* downloaded_data.extend_from_slice(&chunk) *)
Extend(data, chunk) == data \o chunk

(* A cursor that advances by the window instead of the accepted length. *)
Advance_ByWindow(s, chunk_len) == s + CHUNK_SIZE

(* start += chunk_len *)
Advance(s, chunk_len) == s + chunk_len

(* The state at the entry of main. *)
SessionInit ==
    /\ pc = "start"
    /\ total_length = 0
    /\ start = 0
    /\ downloaded_data = <<>>
    /\ requests = <<>>
    /\ response = NoResponse
    /\ error = ""
    /\ hash = 0
    /\ wire = <<>>

(* No parsing routine is under check. *)
ParserIdle ==
    /\ fn = ""
    /\ arg = <<>>
    /\ shape = <<>>
    /\ called = FALSE
    /\ ret = Err("")

Init == SessionInit /\ ParserIdle

(* main, lines 14-20: length discovery, then the buffer and the cursor. *)
GetTotalLength ==
    /\ pc = "start"
    /\ \E r \in LengthResponses :
        LET res == get_total_length(r) IN
        /\ response' = r
        /\ pc' = Try(res.ok)
        /\ IF res.ok
           THEN /\ total_length' = res.val
                /\ error' = ""
           ELSE /\ total_length' = total_length
                /\ error' = res.err
    /\ wire' = Append(wire, length_request(SERVER))
    /\ downloaded_data' = <<>>
    /\ start' = 0
    /\ UNCHANGED <<requests, hash>>
    /\ UNCHANGED pvars

(* main, lines 22-34: one iteration of the download loop. *)
DownloadIteration ==
    /\ pc = "loop"
    /\ LoopCond(start, total_length)
    /\ Len(requests) < MaxRequests
    /\ \E r \in ChunkResponses :
        LET end == ChunkEnd(start, total_length)
            res == download_chunk(r)
        IN
        /\ response' = r
        /\ requests' = Append(requests,
               [start |-> start, end |-> end, ok |-> res.ok, chunk |-> res.val])
        /\ wire' = Append(wire, chunk_request(SERVER, start, end))
        /\ pc' = Try(res.ok)
        /\ IF res.ok
           THEN /\ downloaded_data' = Extend(downloaded_data, res.val)
                /\ start' = Advance(start, Len(res.val))
                /\ error' = ""
           ELSE /\ error' = res.err
                /\ UNCHANGED <<downloaded_data, start>>
    /\ UNCHANGED <<total_length, hash>>
    /\ UNCHANGED pvars

(* main, lines 36-39: the loop is over, hash the buffer and return Ok. *)
Finish ==
    /\ pc = "loop"
    /\ ~LoopCond(start, total_length)
    /\ hash' = calculate_hash(downloaded_data)
    /\ pc' = "done"
    /\ UNCHANGED <<total_length, start, downloaded_data, requests, response, error, wire>>
    /\ UNCHANGED pvars

Next == GetTotalLength \/ DownloadIteration \/ Finish

Spec == Init /\ [][Next]_vars

(***************************************************************************)
(* The response parser: split_response, parse_status_code, parse_headers, *)
(* each applied to an argument drawn from a bounded set.  Bytes and        *)
(* characters are one-character strings; BAD8 is a byte (0xFF) that occurs *)
(* in no valid UTF-8 text.                                                  *)
(***************************************************************************)
CR == "\r"
LF == "\n"
TAB == "\t"
BAD8 == "0xFF"

(* Bounds of the parser's inputs. *)
MaxRaw == 6
MaxReason == 3
MaxLines == 3

(* str::from_utf8 on the bytes the model uses. *)
ValidUtf8(bytes) == \A i \in 1..Len(bytes) : bytes[i] # BAD8

(* The windows of response.windows(4) that equal b"\r\n\r\n" (1-based). *)
SeparatorPositions(bytes) ==
    {i \in 1..(Len(bytes) - 3) :
        bytes[i] = CR /\ bytes[i + 1] = LF /\ bytes[i + 2] = CR /\ bytes[i + 3] = LF}

(* A search that finds the last separator instead of the first. *)
position_Last(bytes) ==
    LET at == SeparatorPositions(bytes) IN
    IF at = {} THEN 0 ELSE CHOOSE i \in at : \A j \in at : j <= i

(* .position(..): the first window that matches, 0 for None. *)
position(bytes) ==
    LET at == SeparatorPositions(bytes) IN
    IF at = {} THEN 0 ELSE CHOOSE i \in at : \A j \in at : i <= j

split_response(bytes) ==
    LET pos == position(bytes) IN
    IF pos = 0 THEN Err("Failed to find end of headers")
    ELSE LET header_end == pos + 3
             headers == SubSeq(bytes, 1, header_end)
         IN IF ~ValidUtf8(headers) THEN Err("Utf8Error")
            ELSE Ok([headers |-> headers,
                     body |-> SubSeq(bytes, header_end + 1, Len(bytes))])

(* char::is_whitespace on the characters the model uses. *)
IsWhite(c) == c \in {" ", TAB, CR, LF}

Digits == {"0", "1", "2", "3", "4", "5", "6", "7", "8", "9"}

DigitValue(c) ==
    CASE c = "0" -> 0 [] c = "1" -> 1 [] c = "2" -> 2 [] c = "3" -> 3 [] c = "4" -> 4
      [] c = "5" -> 5 [] c = "6" -> 6 [] c = "7" -> 7 [] c = "8" -> 8 [] c = "9" -> 9

RECURSIVE DecimalValue(_)
DecimalValue(ds) ==
    IF ds = <<>> THEN 0
    ELSE 10 * DecimalValue(SubSeq(ds, 1, Len(ds) - 1)) + DigitValue(ds[Len(ds)])

(* str::parse::<u16>: an optional '+', then one or more decimal digits, and *)
(* a value that fits in 16 bits.                                            *)
ParseU16(tok) ==
    LET ds == IF tok # <<>> /\ tok[1] = "+" THEN Tail(tok) ELSE tok IN
    IF ds = <<>> THEN Err("ParseIntError")
    ELSE IF \E i \in 1..Len(ds) : ds[i] \notin Digits THEN Err("ParseIntError")
    ELSE IF DecimalValue(ds) > 65535 THEN Err("ParseIntError")
    ELSE Ok(DecimalValue(ds))

(* The k-th smallest element of a set of numbers. *)
Nth(S, k) == CHOOSE i \in S : Cardinality({j \in S : j < i}) = k - 1

(* The pieces of a text between its line feeds. *)
SplitLF(text) ==
    LET at == {i \in 1..Len(text) : text[i] = LF}
        n == Cardinality(at)
    IN [k \in 1..(n + 1) |->
          SubSeq(text,
                 IF k = 1 THEN 1 ELSE Nth(at, k - 1) + 1,
                 IF k = n + 1 THEN Len(text) ELSE Nth(at, k) - 1)]

StripCR(line) ==
    IF line # <<>> /\ line[Len(line)] = CR THEN SubSeq(line, 1, Len(line) - 1) ELSE line

(* str::lines: lines end at "\n" or "\r\n"; a text that ends in a line      *)
(* ending has no empty last line.                                            *)
Lines(text) ==
    LET segs == SplitLF(text)
        n == Len(segs)
    IN [i \in 1..(n - 1) |-> StripCR(segs[i])]
         \o (IF segs[n] = <<>> THEN <<>> ELSE <<segs[n]>>)

(* str::split_whitespace: the maximal runs of non-whitespace characters. *)
SplitWhitespace(line) ==
    LET first == {i \in 1..Len(line) :
                    ~IsWhite(line[i]) /\ (i = 1 \/ IsWhite(line[i - 1]))}
        last == {i \in 1..Len(line) :
                    ~IsWhite(line[i]) /\ (i = Len(line) \/ IsWhite(line[i + 1]))}
    IN [k \in 1..Cardinality(first) |-> SubSeq(line, Nth(first, k), Nth(last, k))]

(* A status line test that expects the three fields of an HTTP status line. *)
WrongPartCount_Three(parts) == Len(parts) # 3

(* if parts.len() != 4 *)
WrongPartCount(parts) == Len(parts) # 4

parse_status_code(text) ==
    LET lines == Lines(text) IN
    IF lines = <<>> THEN Err("Empty response.")
    ELSE LET parts == SplitWhitespace(lines[1]) IN
         IF WrongPartCount(parts) THEN Err("Invalid status line.")
         ELSE ParseU16(parts[2])

(* str::trim: the text from its first to its last non-whitespace character. *)
Trim(t) ==
    LET black == {i \in 1..Len(t) : ~IsWhite(t[i])} IN
    IF black = {} THEN <<>>
    ELSE SubSeq(t, Nth(black, 1), Nth(black, Cardinality(black)))

(* A key that is kept in the case it arrived in. *)
ToLower_Keep(c) == c

(* char::to_lowercase on the letters A-Z. *)
ToLower(c) ==
    CASE c = "A" -> "a" [] c = "B" -> "b" [] c = "C" -> "c" [] c = "D" -> "d"
      [] c = "E" -> "e" [] c = "F" -> "f" [] c = "G" -> "g" [] c = "H" -> "h"
      [] c = "I" -> "i" [] c = "J" -> "j" [] c = "K" -> "k" [] c = "L" -> "l"
      [] c = "M" -> "m" [] c = "N" -> "n" [] c = "O" -> "o" [] c = "P" -> "p"
      [] c = "Q" -> "q" [] c = "R" -> "r" [] c = "S" -> "s" [] c = "T" -> "t"
      [] c = "U" -> "u" [] c = "V" -> "v" [] c = "W" -> "w" [] c = "X" -> "x"
      [] c = "Y" -> "y" [] c = "Z" -> "z" [] OTHER -> c

(* String::to_lowercase *)
to_lowercase(t) == [i \in 1..Len(t) |-> ToLower(t[i])]

(* HashMap::new and HashMap::insert: a map is a function on its keys. *)
EmptyMap == [k \in {} |-> <<>>]
Insert(m, k, v) == [x \in (DOMAIN m) \cup {k} |-> IF x = k THEN v ELSE m[x]]

(* line.split_once(':'): the index of the first colon, 0 for None. *)
ColonAt(line) ==
    LET at == {i \in 1..Len(line) : line[i] = ":"} IN
    IF at = {} THEN 0 ELSE CHOOSE i \in at : \A j \in at : i <= j

(* parse_headers, lines 118-125: the loop from line i on. *)
RECURSIVE HeadersFrom(_, _, _)
HeadersFrom(lines, i, headers) ==
    IF i > Len(lines) THEN headers
    ELSE IF Trim(lines[i]) = <<>> THEN headers
    ELSE LET c == ColonAt(lines[i]) IN
         IF c = 0 THEN HeadersFrom(lines, i + 1, headers)
         ELSE HeadersFrom(lines, i + 1,
                  Insert(headers,
                         to_lowercase(Trim(SubSeq(lines[i], 1, c - 1))),
                         Trim(SubSeq(lines[i], c + 1, Len(lines[i])))))

parse_headers(text) == Ok(HeadersFrom(Lines(text), 1, EmptyMap))

RECURSIVE SeqsUpTo(_, _)
SeqsUpTo(S, n) ==
    IF n = 0 THEN {<<>>}
    ELSE LET shorter == SeqsUpTo(S, n - 1) IN
         shorter \cup {Append(q, x) : q \in {r \in shorter : Len(r) = n - 1}, x \in S}

(* Raw responses for split_response. *)
RawResponses == SeqsUpTo({CR, LF, "a", BAD8}, MaxRaw)

RECURSIVE Join(_, _)
Join(pieces, sep) ==
    IF pieces = <<>> THEN <<>>
    ELSE IF Len(pieces) = 1 THEN pieces[1]
    ELSE pieces[1] \o sep \o Join(Tail(pieces), sep)

(* Second tokens of a status line, each with whether it is written as an   *)
(* unsigned integer (digits only), whether it is a number of at most 16    *)
(* bits, and its value.                                                     *)
CodeToken(chars, digitsOnly, fits, value) ==
    [chars |-> chars, digitsOnly |-> digitsOnly, fits |-> fits, value |-> value]

CodeTokens ==
    {CodeToken(<<"2", "0", "6">>, TRUE, TRUE, 206),
     CodeToken(<<"2", "0", "0">>, TRUE, TRUE, 200),
     CodeToken(<<"0", "0", "7">>, TRUE, TRUE, 7),
     CodeToken(<<"6", "5", "5", "3", "5">>, TRUE, TRUE, 65535),
     CodeToken(<<"6", "5", "5", "3", "6">>, TRUE, FALSE, 65536),
     CodeToken(<<"+", "2", "0", "6">>, FALSE, TRUE, 206),
     CodeToken(<<"+">>, FALSE, FALSE, 0),
     CodeToken(<<"-", "1">>, FALSE, FALSE, 0),
     CodeToken(<<"2", "x", "6">>, FALSE, FALSE, 0)}

NoCodeToken == CodeToken(<<>>, FALSE, FALSE, 0)

ReasonTokens == {<<"O", "K">>, <<"P", "a", "r", "t", "i", "a", "l">>}

(* Status lines: "HTTP/1.1", a second token and up to MaxReason more, and  *)
(* the lines with no token or one token.                                    *)
StatusShapes ==
    {[tokens |-> <<>>, code |-> NoCodeToken],
     [tokens |-> <<<<"H", "T", "T", "P", "/", "1", ".", "1">>>>, code |-> NoCodeToken]}
    \cup {[tokens |-> <<<<"H", "T", "T", "P", "/", "1", ".", "1">>, c.chars>> \o r, code |-> c] :
            c \in CodeTokens, r \in SeqsUpTo(ReasonTokens, MaxReason)}

(* What follows the status line in the text. *)
StatusTails ==
    {<<>>, <<CR, LF>>, <<CR, LF>> \o <<"x", " ", "2", "0", "0", " ", "y", " ", "z">> \o <<CR, LF, CR, LF>>}

(* Header lines, each with the key and value it carries (colon = FALSE: a  *)
(* line without a colon; blank = TRUE: a line of whitespace only).          *)
HeaderLine(chars, colon, blank, key, value) ==
    [chars |-> chars, colon |-> colon, blank |-> blank, key |-> key, value |-> value]

HeaderLines ==
    {HeaderLine(<<"C", "o", "n", "t", "e", "n", "t", "-", "L", "e", "n", "g", "t", "h", ":", " ", "5">>, TRUE, FALSE, <<"c", "o", "n", "t", "e", "n", "t", "-", "l", "e", "n", "g", "t", "h">>, <<"5">>),
     HeaderLine(<<"c", "o", "n", "t", "e", "n", "t", "-", "l", "e", "n", "g", "t", "h", ":", "7">>, TRUE, FALSE, <<"c", "o", "n", "t", "e", "n", "t", "-", "l", "e", "n", "g", "t", "h">>, <<"7">>),
     HeaderLine(<<" ", "C", "O", "N", "T", "E", "N", "T", "-", "L", "E", "N", "G", "T", "H", " ", ":", " ", "5", " ">>, TRUE, FALSE, <<"c", "o", "n", "t", "e", "n", "t", "-", "l", "e", "n", "g", "t", "h">>, <<"5">>),
     HeaderLine(<<"H", "o", "s", "t", ":", " ", "a", ":", "b">>, TRUE, FALSE, <<"h", "o", "s", "t">>, <<"a", ":", "b">>),
     HeaderLine(<<"H", "T", "T", "P", "/", "1", ".", "1", " ", "2", "0", "6", " ", "P", "a", "r", "t", "i", "a", "l", " ", "C", "o", "n", "t", "e", "n", "t">>, FALSE, FALSE, <<>>, <<>>),
     HeaderLine(<<" ">>, FALSE, TRUE, <<>>, <<>>)}

HeaderShapes == SeqsUpTo(HeaderLines, MaxLines)

(* The header block: the lines, each ended by CR LF, and the blank line. *)
HeaderText(lines) ==
    Join([i \in 1..Len(lines) |-> lines[i].chars] \o << <<>>, <<>> >>, <<CR, LF>>)

(* One routine and one argument for it. *)
ParserInit ==
    /\ SessionInit
    /\ called = FALSE
    /\ ret = Err("")
    /\ \/ /\ fn = "split_response"
          /\ arg \in RawResponses
          /\ shape = <<>>
       \/ /\ fn = "parse_status_code"
          /\ \E sh \in StatusShapes, sep \in {<<" ">>, <<" ", TAB>>},
                lead \in {<<>>, <<" ">>}, tail \in StatusTails :
                /\ arg = lead \o Join(sh.tokens, sep) \o tail
                /\ shape = sh
       \/ /\ fn = "parse_headers"
          /\ \E ls \in HeaderShapes :
                /\ arg = HeaderText(ls)
                /\ shape = ls

SplitResponse ==
    /\ fn = "split_response" /\ ~called
    /\ ret' = split_response(arg)
    /\ called' = TRUE
    /\ UNCHANGED <<fn, arg, shape>>
    /\ UNCHANGED svars

ParseStatusCode ==
    /\ fn = "parse_status_code" /\ ~called
    /\ ret' = parse_status_code(arg)
    /\ called' = TRUE
    /\ UNCHANGED <<fn, arg, shape>>
    /\ UNCHANGED svars

ParseHeaders ==
    /\ fn = "parse_headers" /\ ~called
    /\ ret' = parse_headers(arg)
    /\ called' = TRUE
    /\ UNCHANGED <<fn, arg, shape>>
    /\ UNCHANGED svars

ParserNext == SplitResponse \/ ParseStatusCode \/ ParseHeaders

ParserSpec == ParserInit /\ [][ParserNext]_vars

(***************************************************************************)
(* Properties                                                              *)
(***************************************************************************)
LastRequest == requests[Len(requests)]

Ceil(a, b) == (a + b - 1) \div b

(* The response reached the status check: every parsing step before it succeeded. *)
StatusParsed(r) == r.conn /\ r.sep /\ r.utf8 /\ r.tokens = 4 /\ r.numeric

(* A chunk response the specification accepts: status 200 or 206 and a parseable Content-Length. *)
SpecAccepts(r) == StatusParsed(r) /\ r.code \in {200, 206} /\ r.clk = "int"

(* The resource of the session: the server's bytes [0, total_length). *)
Resource == SubSeq(Data, 1, total_length)

RECURSIVE ConcatChunks(_)
ConcatChunks(log) ==
    IF log = <<>> THEN <<>>
    ELSE ConcatChunks(SubSeq(log, 1, Len(log) - 1)) \o log[Len(log)].chunk

(* C1: once a chunk has been accepted with zero payload bytes, the loop ends *)
(* early: no further chunk request is issued.                                *)
C1_ZeroChunkEndsLoop ==
    [][(requests # <<>> /\ LastRequest.ok /\ LastRequest.chunk = <<>>)
          => requests' = requests]_vars

(* C2: a chunk response with status 200 or 206 and a parseable Content-Length *)
(* is accepted: download_chunk returns its payload and the session does not  *)
(* fail on it.                                                                *)
C2_Accepts200And206 ==
    (requests # <<>> /\ SpecAccepts(response))
        => (LastRequest.ok /\ pc # "failed")

(* C3: the reassembly buffer is never longer than total_length. *)
C3_BufferWithinTotal == Len(downloaded_data) <= total_length

(* C4: a session that ends without an error and is reported as a success has *)
(* a buffer of exactly total_length bytes.                                    *)
C4_DoneMeansComplete == pc = "done" => Len(downloaded_data) = total_length

(* C5 as stated: a session issues at most ceil(total_length / window) chunk *)
(* requests, whatever the server answers.                                     *)
C5_AtMostCeilRequests == Len(requests) <= Ceil(total_length, CHUNK_SIZE)

(* C5 amended: as long as every earlier chunk response was accepted with at  *)
(* least the end - start bytes of its range (no short read), the session has *)
(* issued at most ceil(total_length / window) chunk requests.                *)
NoShortReadBefore(k) ==
    \A i \in 1..(k - 1) :
        requests[i].ok /\ Len(requests[i].chunk) >= requests[i].end - requests[i].start

C5_AtMostCeilRequestsWhenFull ==
    NoShortReadBefore(Len(requests))
        => Len(requests) <= Ceil(total_length, CHUNK_SIZE)

C5_Witness ==
    /\ pc = "done"
    /\ Len(requests) = 2
    /\ Ceil(total_length, CHUNK_SIZE) = 2
    /\ NoShortReadBefore(3)

(* C6: a chunk response whose status code is neither 200 nor 206 makes the   *)
(* session fail with an unexpected-status error and leaves the buffer and    *)
(* the cursor as they were.                                                   *)
C6_OtherStatusAborts ==
    [][(requests' # requests /\ StatusParsed(response')
            /\ response'.code \notin {200, 206})
          => /\ pc' = "failed"
             /\ error' = "Unexpected status code"
             /\ downloaded_data' = downloaded_data
             /\ start' = start]_vars

(* C7: an accepted chunk is the first min(declared Content-Length, body      *)
(* length) bytes of the body, the cursor advances by exactly that many, and  *)
(* each request starts at the cursor left by the one before.                 *)
C7_AcceptedPrefixAdvancesCursor ==
    [][(requests' # requests /\ requests'[Len(requests')].ok)
          => LET r == response'
                 n == IF r.cl < Len(r.body) THEN r.cl ELSE Len(r.body)
             IN /\ requests'[Len(requests')].chunk = [i \in 1..n |-> r.body[i]]
                /\ requests'[Len(requests')].start = start
                /\ start' = start + n]_vars

C7_Witness ==
    /\ Len(requests) = 2
    /\ requests[1].ok /\ Len(requests[1].chunk) = 1
    /\ requests[1].end - requests[1].start = 2
    /\ requests[2].start = 1
    /\ requests[2].ok
    /\ response.cl = 3 /\ Len(response.body) = 1
    /\ start = 2

(* C8: every chunk request has a range with 0 <= start < end <= total_length *)
(* and end = min(start + window, total_length).                              *)
C8_RangesWellFormed ==
    \A i \in 1..Len(requests) :
        LET s == requests[i].start
            e == requests[i].end
        IN /\ 0 <= s /\ s < e /\ e <= total_length
           /\ e = IF s + CHUNK_SIZE < total_length THEN s + CHUNK_SIZE ELSE total_length

C8_Witness ==
    /\ Len(requests) >= 2
    /\ requests[2].start = 1
    /\ requests[2].end = total_length
    /\ requests[1].end = CHUNK_SIZE
    /\ requests[1].end < total_length

(* C9: when every chunk response delivers exactly the end - start bytes of   *)
(* its range, no chunk exchange fails, the k-th range is                      *)
(* [k*w, min((k+1)*w, total_length)), and the session ends after exactly     *)
(* ceil(total_length / w) requests with a buffer of total_length bytes.      *)
DeliversExactly(i) ==
    LET want == requests[i].end - requests[i].start IN
    IF i = Len(requests)
    THEN /\ SpecAccepts(response)
         /\ (IF response.cl < Len(response.body) THEN response.cl
             ELSE Len(response.body)) = want
    ELSE requests[i].ok /\ Len(requests[i].chunk) = want

C9_FullDeliveryTilesAndCompletes ==
    (\A i \in 1..Len(requests) : DeliversExactly(i))
        => /\ \A i \in 1..Len(requests) :
                /\ requests[i].ok
                /\ requests[i].start = (i - 1) * CHUNK_SIZE
                /\ requests[i].end =
                     IF i * CHUNK_SIZE < total_length THEN i * CHUNK_SIZE
                     ELSE total_length
           /\ pc = "done" =>
                /\ Len(requests) = Ceil(total_length, CHUNK_SIZE)
                /\ Len(downloaded_data) = total_length

(* C10: the buffer is the concatenation, in request order, of the accepted   *)
(* payloads; when every request at offset s was answered with a non-empty    *)
(* prefix of the resource's bytes from s, a finished session holds exactly   *)
(* the resource and its fingerprint is the fingerprint of the resource.      *)
PrefixOfResourceFrom(chunk, s) ==
    /\ chunk # <<>>
    /\ s + Len(chunk) <= total_length
    /\ \A j \in 1..Len(chunk) : chunk[j] = Data[s + j]

AllHonest ==
    \A i \in 1..Len(requests) :
        requests[i].ok /\ PrefixOfResourceFrom(requests[i].chunk, requests[i].start)

C10_ReassemblyInOrder ==
    /\ downloaded_data = ConcatChunks(requests)
    /\ (pc = "done" /\ AllHonest)
          => /\ downloaded_data = Resource
             /\ hash = calculate_hash(Resource)

C10_Witness ==
    /\ pc = "done"
    /\ AllHonest
    /\ Len(requests) = 2
    /\ total_length = 3
    /\ downloaded_data = <<1, 2, 3>>

(* The pieces of a request text between its CRLFs: its lines, and the empty *)
(* remainder after the last CRLF.                                            *)
RECURSIVE SplitCRLF(_)
SplitCRLF(text) ==
    IF text = <<>> THEN << <<>> >>
    ELSE LET before == SplitCRLF(SubSeq(text, 1, Len(text) - 1))
             piece == text[Len(text)]
         IN IF piece = CRLF THEN Append(before, <<>>)
            ELSE [before EXCEPT ![Len(before)] = Append(@, piece)]

IsRanged(text) == \E j \in 1..Len(text) : text[j] = "Range: bytes="

(* C11: length discovery is performed exactly once and before any ranged    *)
(* request: the first request on the wire is the only un-ranged one, every   *)
(* chunk request follows it, and total_length, set from its Content-Length,  *)
(* never changes afterwards.                                                  *)
C11_LengthDiscoveredOnceFirst ==
    /\ [](/\ pc = "start" => (wire = <<>> /\ requests = <<>>)
          /\ pc # "start" => (Len(wire) >= 1 /\ ~IsRanged(wire[1]))
          /\ \A i \in 2..Len(wire) : IsRanged(wire[i])
          /\ requests # <<>> => Len(wire) = Len(requests) + 1)
    /\ [][/\ pc # "start" => total_length' = total_length
          /\ (pc = "start" /\ pc' = "loop") => total_length' = response'.cl]_vars

C11_Witness ==
    /\ pc = "done"
    /\ Len(wire) = 3
    /\ total_length = 3
    /\ response.cl # 3

(* C12: a failed exchange makes the session Failed, no request follows a    *)
(* failed one (no retry), and a length-discovery response without            *)
(* Content-Length fails the session before any chunk request.                *)
C12_FailFast ==
    /\ error # "" <=> pc = "failed"
    /\ \A i \in 1..Len(requests) :
          ~requests[i].ok => (i = Len(requests) /\ pc = "failed")
    /\ pc # "start" => Len(wire) = Len(requests) + 1
    /\ (pc = "failed" /\ requests # <<>>) => ~LastRequest.ok
    /\ (pc # "start" /\ requests = <<>> /\ response.conn /\ response.sep
            /\ response.utf8 /\ response.clk = "absent")
          => (pc = "failed" /\ Len(wire) = 1
              /\ error = "Content-Length header not found")

C12_Witness ==
    /\ pc = "failed"
    /\ Len(requests) = 2
    /\ requests[1].ok
    /\ ~requests[2].ok
    /\ Len(wire) = 3
    /\ error = "Invalid status line."

(* C13: split_response fails on every input without CR LF CR LF, also the   *)
(* empty one and those shorter than four bytes; when it succeeds the body   *)
(* is exactly the bytes after the first CR LF CR LF, possibly none; it      *)
(* succeeds whenever the separator is there and the header block is valid   *)
(* UTF-8.                                                                    *)
SeparatorAt(bytes, i) ==
    /\ i + 3 <= Len(bytes)
    /\ bytes[i] = CR /\ bytes[i + 1] = LF /\ bytes[i + 2] = CR /\ bytes[i + 3] = LF

FirstSeparatorAt(bytes, i) ==
    SeparatorAt(bytes, i) /\ \A j \in 1..(i - 1) : ~SeparatorAt(bytes, j)

C13_SplitAtFirstSeparator ==
    (fn = "split_response" /\ called) =>
        /\ (\A i \in 1..Len(arg) : ~SeparatorAt(arg, i)) => ~ret.ok
        /\ ret.ok =>
             \E i \in 1..Len(arg) :
                /\ FirstSeparatorAt(arg, i)
                /\ ret.val.body = [k \in 1..(Len(arg) - (i + 3)) |-> arg[i + 3 + k]]
        /\ \A i \in 1..Len(arg) :
             (FirstSeparatorAt(arg, i) /\ \A k \in 1..(i + 3) : arg[k] # BAD8) => ret.ok

C13_Witness ==
    /\ fn = "split_response" /\ called
    /\ arg = <<CR, LF, CR, LF, CR, LF>>
    /\ ret.ok
    /\ ret.val.body = <<CR, LF>>

(* C14 as stated: parse_status_code succeeds exactly when the first line    *)
(* has exactly four whitespace-separated tokens and the second is an        *)
(* unsigned integer, and then returns it.                                   *)
C14_FourTokensUnsignedCode ==
    (fn = "parse_status_code" /\ called) =>
        /\ ret.ok <=> (Len(shape.tokens) = 4 /\ shape.code.digitsOnly)
        /\ ret.ok => ret.val = shape.code.value

(* C14 amended: parse_status_code succeeds exactly when the first line has  *)
(* exactly four whitespace-separated tokens and the second is decimal       *)
(* digits, optionally after a '+', of a value of at most 65535, and then    *)
(* returns that value.                                                       *)
C14_FourTokensU16Code ==
    (fn = "parse_status_code" /\ called) =>
        /\ ret.ok <=> (Len(shape.tokens) = 4 /\ shape.code.fits)
        /\ ret.ok => ret.val = shape.code.value

C14_Witness ==
    /\ fn = "parse_status_code" /\ called
    /\ shape.tokens = <<<<"H", "T", "T", "P", "/", "1", ".", "1">>, <<"2", "0", "6">>, <<"P", "a", "r", "t", "i", "a", "l">>, <<"O", "K">>>>
    /\ ret.ok
    /\ ret.val = 206

(* C15 as stated: every header line with a colon, in any letter case of its *)
(* key, has its lowercased, trimmed key mapped to its trimmed value; lines  *)
(* without a colon are skipped and parsing never fails.                     *)
C15_EveryHeaderLineMapped ==
    (fn = "parse_headers" /\ called) =>
        /\ ret.ok
        /\ \A i \in 1..Len(shape) :
             shape[i].colon =>
                /\ shape[i].key \in DOMAIN ret.val
                /\ ret.val[shape[i].key] = shape[i].value

(* C15 amended: parsing stops at the first empty or whitespace-only line    *)
(* and a later line replaces an earlier one with the same key; every header *)
(* line with a colon that comes before such a line and is the last one with *)
(* its key has its lowercased, trimmed key mapped to its trimmed value, and *)
(* the map has no other key; lines without a colon are skipped and parsing  *)
(* never fails.                                                              *)
Parsed(i) ==
    shape[i].colon /\ \A j \in 1..i : ~shape[j].blank

LastWithKey(i) ==
    \A j \in (i + 1)..Len(shape) : Parsed(j) => shape[j].key # shape[i].key

C15_LastHeaderLineBeforeBlankMapped ==
    (fn = "parse_headers" /\ called) =>
        /\ ret.ok
        /\ \A i \in 1..Len(shape) :
             (Parsed(i) /\ LastWithKey(i)) =>
                /\ shape[i].key \in DOMAIN ret.val
                /\ ret.val[shape[i].key] = shape[i].value
        /\ DOMAIN ret.val = {shape[i].key : i \in {j \in 1..Len(shape) : Parsed(j)}}

C15_Witness ==
    /\ fn = "parse_headers" /\ called
    /\ Len(shape) = 3
    /\ shape[1].chars = <<"H", "T", "T", "P", "/", "1", ".", "1", " ", "2", "0", "6", " ", "P", "a", "r", "t", "i", "a", "l", " ", "C", "o", "n", "t", "e", "n", "t">>
    /\ shape[2].chars = <<" ", "C", "O", "N", "T", "E", "N", "T", "-", "L", "E", "N", "G", "T", "H", " ", ":", " ", "5", " ">>
    /\ shape[3].chars = <<"H", "o", "s", "t", ":", " ", "a", ":", "b">>
    /\ ret.ok
    /\ ret.val[<<"c", "o", "n", "t", "e", "n", "t", "-", "l", "e", "n", "g", "t", "h">>] = <<"5">>
    /\ ret.val[<<"h", "o", "s", "t">>] = <<"a", ":", "b">>

(* C16: every request on the wire is the request line, the Host line, the   *)
(* Range line (chunk requests only), the Connection: close line and then one *)
(* blank line that ends the request.                                          *)
FirstBlank(lines) ==
    CHOOSE j \in 1..Len(lines) :
        lines[j] = <<>> /\ \A k \in 1..(j - 1) : lines[k] # <<>>

C16_RequestShape ==
    \A i \in 1..Len(wire) :
        LET lines == SplitCRLF(wire[i])
            blank == FirstBlank(lines)
        IN /\ lines[1] = <<"GET / HTTP/1.1">>
           /\ lines[2] = <<"Host: ", SERVER>>
           /\ lines[blank - 1] = <<"Connection: close">>
           /\ blank = Len(lines) - 1
           /\ IF i = 1 THEN blank = 4
              ELSE blank = 5 /\ lines[3][1] = "Range: bytes="

(* C17 as stated: consecutive chunk requests [s1, e1), [s2, e2) have         *)
(* s2 > s1 and s2 >= e1, whatever the server answers.                        *)
C17_StrictlyIncreasingNoOverlap ==
    \A i \in 1..(Len(requests) - 1) :
        /\ requests[i + 1].start > requests[i].start
        /\ requests[i + 1].start >= requests[i].end

(* C17 amended: consecutive chunk requests have s2 = s1 + the accepted       *)
(* length of the first, so s2 >= s1 always, s2 > s1 exactly when the first   *)
(* chunk was not empty and s2 >= e1 exactly when the first chunk filled its  *)
(* range.                                                                     *)
C17_NextStartsAfterAccepted ==
    \A i \in 1..(Len(requests) - 1) :
        LET s1 == requests[i].start
            e1 == requests[i].end
            s2 == requests[i + 1].start
            n == Len(requests[i].chunk)
        IN /\ s2 >= s1
           /\ s2 > s1 <=> n > 0
           /\ s2 >= e1 <=> n >= e1 - s1

C17_Witness ==
    /\ Len(requests) = 2
    /\ requests[1].start = 0 /\ requests[1].end = 2
    /\ requests[2].start = 1 /\ requests[2].end = 3
    /\ start = 3

(* C18: the cursor equals the buffer length, the cursor never decreases and *)
(* the buffer only grows by appending.                                       *)
C18_CursorIsBufferLength ==
    /\ [](start = Len(downloaded_data))
    /\ [][/\ start' >= start
          /\ Len(downloaded_data') >= Len(downloaded_data)
          /\ \A j \in 1..Len(downloaded_data) :
                downloaded_data'[j] = downloaded_data[j]]_vars

C18_Witness ==
    /\ Len(requests) = 2
    /\ requests[1].ok /\ requests[2].ok
    /\ Len(requests[1].chunk) = 1
    /\ start = 3
    /\ downloaded_data = <<1, 2, 3>>

(* C19: when every chunk exchange so far succeeded with at least one byte,  *)
(* at most total_length chunk requests have been issued; the loop ends only  *)
(* with cursor >= total_length; with total_length = 0 no chunk request is    *)
(* issued.                                                                    *)
AllOkNonEmpty ==
    \A i \in 1..Len(requests) : requests[i].ok /\ requests[i].chunk # <<>>

C19_ProgressBoundsRequests ==
    /\ AllOkNonEmpty => (Len(requests) <= total_length /\ Len(requests) <= start)
    /\ pc = "done" => start >= total_length
    /\ total_length = 0 => requests = <<>>
    /\ (pc = "loop" /\ AllOkNonEmpty) => ENABLED (DownloadIteration \/ Finish)

C19_Witness ==
    /\ pc = "done"
    /\ AllOkNonEmpty
    /\ total_length = 3
    /\ Len(requests) = 3

====
